---- MODULE Spec2Model ----
(***************************************************************************)
(* Model of the bitmath crate (src/src/lib.rs): the fixed-width bit vector *)
(* Bits<SIZE>, its constructors, scalar conversions, additions, rotations  *)
(* and binary rendering.                                                   *)
(*                                                                         *)
(* A Bits<SIZE> is a sequence of SIZE booleans; Rust index i is TLA+ index *)
(* i + 1, so self[1] is the most significant bit.  Machine integers (u32,  *)
(* i32, u64, i64) are kept at their real width as bit patterns: a word of  *)
(* width w is a function [0..w-1 -> BOOLEAN], position 0 the least         *)
(* significant bit.  Signedness is in the operators, as in the hardware.   *)
(* usize values stay far below 2^31 here and are plain integers; a usize   *)
(* subtraction that wraps in a release build is kept as the negative       *)
(* integer d that stands for 2^64 + d.                                     *)
(***************************************************************************)
EXTENDS Integers, Sequences, FiniteSets, TLC

VARIABLES SIZE, self, ctor, op, ret, pc

vars == <<SIZE, self, ctor, op, ret, pc>>

(***************************************************************************)
(* Bounds of the model.                                                    *)
(***************************************************************************)
MaxSmallWidth == 6
LowBits == 2
MaxRot == 3
MaxStrLen == 3
MaxSliceLen == 2
MaxIndex == 7

\* The widths explored: every small width, the widths of the spec's scenarios
\* and the widths around the 32-bit and 64-bit machine words.
Widths == (1..MaxSmallWidth) \cup {8, 32, 33, 64}

\* Whether overflow checks are compiled in (debug) or not (release): integer
\* overflow panics in the first and wraps in the second.
Builds == {"debug", "release"}

(***************************************************************************)
(* Machine words.  A word of width w is the sequence of its w bits, least  *)
(* significant first: bit position k (the bit of weight 2^k) is x[k+1].    *)
(***************************************************************************)
\* the word of width w whose bits are the first w values of f
Word(f, w) == SubSeq(f, 1, w)

\* bit k of x, the bit of weight 2^k
Bit(x, k) == x[k+1]

\* the literal 0
Zero(w) == Word([p \in 1..w |-> FALSE], w)

\* the literal 1
One(w) == Word([p \in 1..w |-> p = 1], w)

\* x << k, bits shifted out at the top are lost
Shl(x, k, w) == Word([p \in 1..w |-> IF p > k THEN x[p-k] ELSE FALSE], w)

\* x >> k on an unsigned word
Shr(x, k, w) == Word([p \in 1..w |-> IF p + k <= w THEN x[p+k] ELSE FALSE], w)

\* x >> k on a signed word: the sign bit is replicated
Sar(x, k, w) == Word([p \in 1..w |-> IF p + k <= w THEN x[p+k] ELSE x[w]], w)

\* x & y
BitAnd(x, y, w) == Word([p \in 1..w |-> x[p] /\ y[p]], w)

\* x | y
BitOr(x, y, w) == Word([p \in 1..w |-> x[p] \/ y[p]], w)

\* x == 0; x != 0 and, on an unsigned word, x > 0 are its negation
IsZero(x, w) == \A p \in 1..w : ~x[p]

\* bit(b), `b as u32`, `if is_negative { 1 } else { 0 }`: the word 1 or 0
bit(b, w) == Word([p \in 1..w |-> (p = 1) /\ b], w)

\* `as u64` of a u32: the high bits are zero
ZeroExtend(x, from, to) == Word([p \in 1..to |-> IF p <= from THEN x[p] ELSE FALSE], to)

\* `as i64` of an i32: the high bits repeat the sign bit
SignExtend(x, from, to) == Word([p \in 1..to |-> IF p <= from THEN x[p] ELSE x[from]], to)

\* `as u32`, `as i32` of a 64-bit word: the low bits
Truncate(x, to) == SubSeq(x, 1, to)

\* x + y modulo 2^w: ripple-carry addition, the carry out of the top bit is lost
WrappingAdd(x, y, w) ==
  LET add[p \in 1..(w+1), carry \in BOOLEAN, sum \in Seq(BOOLEAN)] ==
        IF p > w THEN sum
        ELSE add[p + 1, (x[p] /\ y[p]) \/ (carry /\ (x[p] \/ y[p])),
                 Append(sum, (x[p] # y[p]) # carry)]
  IN  add[1, FALSE, <<>>]

\* x < y, both unsigned
LtU(x, y, w) ==
  \E p \in 1..w : ~x[p] /\ y[p] /\ \A q \in (p+1)..w : x[q] = y[q]

\* x < y, both two's complement
LtS(x, y, w) ==
  IF x[w] # y[w] THEN x[w] ELSE LtU(x, y, w)

\* -x modulo 2^w
WrappingNeg(x, w) == WrappingAdd(Word([p \in 1..w |-> ~x[p]], w), One(w), w)

\* the most negative value of a signed word, the one value whose negation overflows
IsMin(x, w) == x[w] /\ \A p \in 1..(w-1) : ~x[p]

(***************************************************************************)
(* Return values.                                                          *)
(***************************************************************************)
None == [tag |-> "None"]

Some(b) == [tag |-> "Some", val |-> b]

Panic == [tag |-> "panic"]

OkBits(b) == [tag |-> "Ok", bits |-> b]

InvalidInputString == [tag |-> "Err", err |-> "InvalidInputString"]

BitWidthMismatch(e, f) ==
  [tag |-> "Err", err |-> "BitWidthMismatch", expected |-> e, found |-> f]

BitIndexOutOfRange == [tag |-> "Err", err |-> "BitIndexOutOfRange"]

(***************************************************************************)
(* Constructors.                                                           *)
(***************************************************************************)
\* [bool; SIZE] from the values collected: bits.try_into().unwrap(), Bits(copied)
Bits(bits, N) == SubSeq(bits, 1, N)

\* Bits::new()
new(N) == Bits([i \in 1..N |-> FALSE], N)

\* Bits::from_signed(x), x an i32
from_signed(x, N) ==
  IF N <= 32
  THEN Bits([i \in 1..N |-> ~IsZero(BitAnd(Sar(x, N - 1 - (i-1), 32), One(32), 32), 32)], N)
  ELSE LET extend_bits == N - 32
           is_negative == LtS(x, Zero(32), 32)
       IN  Bits([i \in 1..N |->
                  IF i <= extend_bits
                  THEN is_negative
                  ELSE ~IsZero(BitAnd(Sar(x, 31 - (i - 1 - extend_bits), 32), One(32), 32), 32)], N)

\* from_unsigned with the shift amount off by one (SIZE - i for SIZE-1 - i)
from_unsigned_off_by_one(x, N) ==
  IF N <= 32
  THEN Bits([i \in 1..N |-> ~IsZero(BitAnd(Shr(x, N - (i-1), 32), One(32), 32), 32)], N)
  ELSE LET extend_bits == N - 32
       IN  Bits([i \in 1..N |->
                  IF i <= extend_bits
                  THEN FALSE
                  ELSE ~IsZero(BitAnd(Shr(x, 31 - (i - 1 - extend_bits), 32), One(32), 32), 32)], N)

\* Bits::from_unsigned(x), x a u32
from_unsigned(x, N) ==
  IF N <= 32
  THEN Bits([i \in 1..N |-> ~IsZero(BitAnd(Shr(x, N - 1 - (i-1), 32), One(32), 32), 32)], N)
  ELSE LET extend_bits == N - 32
       IN  Bits([i \in 1..N |->
                  IF i <= extend_bits
                  THEN FALSE
                  ELSE ~IsZero(BitAnd(Shr(x, 31 - (i - 1 - extend_bits), 32), One(32), 32), 32)], N)

\* Bits::from_slice(slice)
from_slice(slice, N) ==
  IF Len(slice) # N
  THEN BitWidthMismatch(N, Len(slice))
  ELSE OkBits(Bits([i \in 1..N |-> slice[i]], N))

\* Bits::from_reverse_index(slice, hi, lo).  usize arithmetic: a subtraction
\* below zero panics in a debug build and wraps to 2^64 + d in a release build,
\* where the wrapped value is neither < 1 nor a valid index of the slice.
from_reverse_index(slice, hi, lo, N, build) ==
  LET high  == IF lo > hi THEN lo ELSE hi
      low   == IF lo < hi THEN lo ELSE hi
      width == high - low + 1
      d     == Len(slice) - high
      idx(i) == Len(slice) - high - 1 + i
  IN  IF d < 0 /\ build = "debug" THEN Panic
      ELSE IF d >= 0 /\ d < 1 THEN BitIndexOutOfRange
      ELSE IF width # N THEN BitWidthMismatch(N, width)
      ELSE IF \E i \in 0..(N-1) : idx(i) < 0 \/ idx(i) >= Len(slice) THEN Panic
      ELSE OkBits(Bits([i \in 1..N |-> slice[idx(i-1) + 1]], N))

\* input.replace(" ", "")
StripSpaces(input) == SelectSeq(input, LAMBDA c : c # " ")

\* <Bits<N> as TryFrom<&str>>::try_from(input); input.chars().nth(i).unwrap()
\* panics at the first i past the end of the stripped input
try_from(input, N) ==
  LET stripped == StripSpaces(input)
  IN  IF Len(stripped) > N \/ \E k \in 1..Len(stripped) : stripped[k] # "0" /\ stripped[k] # "1"
      THEN InvalidInputString
      ELSE IF \E i \in 0..(N-1) : i >= Len(stripped)
      THEN Panic
      ELSE OkBits(Bits([i \in 1..N |-> IF stripped[i] = "0" THEN FALSE ELSE TRUE], N))

(***************************************************************************)
(* Scalar conversion.                                                      *)
(***************************************************************************)
\* Bits::size()
size(v) == Len(v)

\* Bits::get_bit(n)
get_bit(v, n) == IF n < Len(v) THEN Some(v[n+1]) ELSE None

\* Bits::unsigned_value(), a u32
unsigned_value(v) ==
  LET start_idx == IF size(v) - 32 > 0 THEN size(v) - 32 ELSE 0
      n         == IF size(v) < 32 THEN size(v) ELSE 32
      \* for i in 0..n { result <<= 1; result |= bit(self.0[start_idx+i]) as u32; }
      loop[i \in 0..n, result \in Seq(BOOLEAN)] ==
        IF i >= n THEN result
        ELSE loop[i + 1, BitOr(Shl(result, 1, 32), bit(v[start_idx + i + 1], 32), 32)]
  IN  loop[0, Zero(32)]

\* signed_value that fills the missing high-order bits with zeros
signed_value_zero_extended(v) ==
  LET start_idx   == IF size(v) - 32 > 0 THEN size(v) - 32 ELSE 0
      extend_bits == IF 32 - size(v) > 0 THEN 32 - size(v) ELSE 0
      n           == IF size(v) < 32 THEN size(v) ELSE 32
      extend[i \in 0..extend_bits, result \in Seq(BOOLEAN)] ==
        IF i >= extend_bits THEN result
        ELSE extend[i + 1, BitOr(Shl(result, 1, 32), bit(FALSE, 32), 32)]
      loop[i \in 0..n, result \in Seq(BOOLEAN)] ==
        IF i >= n THEN result
        ELSE loop[i + 1, BitOr(Shl(result, 1, 32), bit(get_bit(v, start_idx + i).val, 32), 32)]
  IN  loop[0, extend[0, Zero(32)]]

\* signed_value that reads the first 32 bits of a wide vector (start_idx = 0)
signed_value_from_top(v) ==
  LET start_idx   == 0
      extend_bits == IF 32 - size(v) > 0 THEN 32 - size(v) ELSE 0
      is_negative == v[1] = TRUE
      n           == IF size(v) < 32 THEN size(v) ELSE 32
      extend[i \in 0..extend_bits, result \in Seq(BOOLEAN)] ==
        IF i >= extend_bits THEN result
        ELSE extend[i + 1, BitOr(Shl(result, 1, 32), bit(is_negative, 32), 32)]
      loop[i \in 0..n, result \in Seq(BOOLEAN)] ==
        IF i >= n THEN result
        ELSE loop[i + 1, BitOr(Shl(result, 1, 32), bit(get_bit(v, start_idx + i).val, 32), 32)]
  IN  loop[0, extend[0, Zero(32)]]

\* Bits::signed_value(), an i32 (the u32 pattern reinterpreted); SIZE >= 1
signed_value(v) ==
  LET start_idx   == IF size(v) - 32 > 0 THEN size(v) - 32 ELSE 0
      extend_bits == IF 32 - size(v) > 0 THEN 32 - size(v) ELSE 0
      is_negative == v[1] = TRUE
      n           == IF size(v) < 32 THEN size(v) ELSE 32
      \* for _ in 0..extend_bits { result <<= 1; result |= is_negative; }
      extend[i \in 0..extend_bits, result \in Seq(BOOLEAN)] ==
        IF i >= extend_bits THEN result
        ELSE extend[i + 1, BitOr(Shl(result, 1, 32), bit(is_negative, 32), 32)]
      \* for i in 0..n { result <<= 1; result |= *get_bit(start_idx+i).unwrap() as u32; }
      loop[i \in 0..n, result \in Seq(BOOLEAN)] ==
        IF i >= n THEN result
        ELSE loop[i + 1, BitOr(Shl(result, 1, 32), bit(get_bit(v, start_idx + i).val, 32), 32)]
  IN  loop[0, extend[0, Zero(32)]]

(***************************************************************************)
(* Arithmetic.                                                             *)
(***************************************************************************)
\* let mut mask = 1; for _ in 0..SIZE-1 { mask <<= 1; mask |= 1; }
Mask(N) ==
  LET loop[i \in 0..(N-1), mask \in Seq(BOOLEAN)] ==
        IF i >= N - 1 THEN mask
        ELSE loop[i + 1, BitOr(Shl(mask, 1, 64), One(64), 64)]
  IN  loop[0, One(64)]

\* the mask depends on SIZE alone: it is computed once for each width explored
Masks == [N \in Widths |-> Mask(N)]

\* Bits::unsigned_add(other).  sum >> SIZE with SIZE >= 64 is a shift overflow:
\* a panic in a debug build, a shift by SIZE mod 64 in a release build.
unsigned_add(v, other, build) ==
  LET N      == size(v)
      a      == ZeroExtend(unsigned_value(v), 32, 64)
      b      == ZeroExtend(unsigned_value(other), 32, 64)
      sum    == WrappingAdd(a, b, 64)
      mask   == Masks[N]
      result == Truncate(BitAnd(sum, mask, 64), 32)
  IN  IF N >= 64 /\ build = "debug" THEN Panic
      ELSE [tag |-> "pair", bits |-> from_unsigned(result, N),
            overflow |-> ~IsZero(Shr(sum, N % 64, 64), 64)]

\* 2u64.pow(e) in a build where it does not panic
Pow2(e) == Word([p \in 1..64 |-> p = e + 1], 64)

\* Bits::signed_add(other).  2u64.pow(SIZE-1) overflows for SIZE > 64 and
\* -(2^63 as i64) overflows for SIZE = 64: panics in a debug build, wrapped
\* values in a release build.
signed_add(v, other, build) ==
  LET N      == size(v)
      a      == SignExtend(signed_value(v), 32, 64)
      b      == SignExtend(signed_value(other), 32, 64)
      sum    == WrappingAdd(a, b, 64)
      mask   == Masks[N]
      result == Truncate(BitAnd(sum, mask, 64), 32)
      pow    == Pow2(N - 1)
      lo     == WrappingNeg(pow, 64)
      hi     == WrappingAdd(pow, WrappingNeg(One(64), 64), 64)
      overflow == LtS(sum, lo, 64) \/ LtS(hi, sum, 64)
  IN  IF build = "debug" /\ (N - 1 >= 64 \/ IsMin(pow, 64)) THEN Panic
      ELSE [tag |-> "pair", bits |-> from_signed(result, N), overflow |-> overflow]

(***************************************************************************)
(* Rotation.                                                               *)
(***************************************************************************)
\* Bits::rotate_right(n); SIZE >= 1
rotate_right(v, n) ==
  LET N == size(v)
      m == n % N
      \* for i in 0..SIZE { result.0[(i+n)%SIZE] = self.0[i]; }
      loop[i \in 0..N, result \in Seq(BOOLEAN)] ==
        IF i >= N THEN result
        ELSE loop[i + 1, [result EXCEPT ![((i + m) % N) + 1] = v[i+1]]]
  IN  loop[0, new(N)]

\* rotate_left that moves the bits the way rotate_right does
rotate_left_as_right(v, n) ==
  LET N == size(v)
      m == n % N
      loop[i \in 0..N, result \in Seq(BOOLEAN)] ==
        IF i >= N THEN result
        ELSE loop[i + 1, [result EXCEPT ![((i + m) % N) + 1] = v[i+1]]]
  IN  loop[0, new(N)]

\* Bits::rotate_left(n); SIZE >= 1
rotate_left(v, n) ==
  LET N == size(v)
      m == n % N
      \* for i in 0..SIZE { result.0[(i+SIZE-n) % SIZE] = self.0[i]; }
      loop[i \in 0..N, result \in Seq(BOOLEAN)] ==
        IF i >= N THEN result
        ELSE loop[i + 1, [result EXCEPT ![((i + N - m) % N) + 1] = v[i+1]]]
  IN  loop[0, new(N)]

(***************************************************************************)
(* Rendering.  A string is a sequence of one-character strings.            *)
(***************************************************************************)
\* String::insert(idx, ch)
Insert(s, idx, ch) == SubSeq(s, 1, idx) \o <<ch>> \o SubSeq(s, idx + 1, Len(s))

\* Bits::bits_string(pretty)
bits_string(v, pretty) ==
  LET N == size(v)
      bitstr == SubSeq([i \in 1..N |-> IF v[i] THEN "1" ELSE "0"], 1, N)
      \* for i in 1..SIZE { let idx = SIZE - i; if idx % 4 == 0 { bitstr.insert(idx, ' '); } }
      loop[i \in 1..(N+1), str \in Seq({"0", "1", " "})] ==
        IF i >= N THEN str
        ELSE LET idx == N - i
             IN  loop[i + 1, IF idx % 4 = 0 THEN Insert(str, idx, " ") ELSE str]
  IN  IF pretty THEN loop[1, bitstr] ELSE bitstr

(***************************************************************************)
(* Inputs.                                                                 *)
(***************************************************************************)
\* u32 / i32 arguments: bit 31 is t, the low LowBits bits are arbitrary and
\* the bits between are all f (0.., ..2^31-1, 2^31.., ..2^32-1; as signed the
\* values around 0, i32::MAX and i32::MIN).
Words32 ==
  { Word([p \in 1..32 |-> IF p <= LowBits THEN low[p-1] ELSE IF p = 32 THEN t ELSE f], 32) :
      t \in BOOLEAN, f \in BOOLEAN, low \in [0..(LowBits-1) -> BOOLEAN] }

\* N-bit vectors: the most significant bit is t, the low k bits are arbitrary
\* and the bits between are all f; every vector when N <= k + 1.
Vectors(N, k) ==
  { Bits([i \in 1..N |-> IF N - i < k THEN low[N-i] ELSE IF i = 1 THEN t ELSE f], N) :
      t \in BOOLEAN, f \in BOOLEAN, low \in [0..(k-1) -> BOOLEAN] }

\* every sequence over S of length at most n
SeqsUpTo(S, n) == UNION { [1..k -> S] : k \in 0..n }

\* the backing sequence 10110010 of the reversed-range scenario
ExampleSlice == <<TRUE, FALSE, TRUE, TRUE, FALSE, FALSE, TRUE, FALSE>>

Slices == SeqsUpTo(BOOLEAN, MaxSliceLen) \cup {ExampleSlice}

Chars == {"0", "1", " ", "2"}

\* the second operand of an addition: 0, 1, -1 (all ones), the largest and the
\* smallest signed value, and the values next to them
Others(N) == Vectors(N, 1)

\* binary literals: every short text, and the renderings of some N-bit vectors
Inputs(N) ==
  SeqsUpTo(Chars, MaxStrLen)
    \cup { bits_string(v, pretty) : v \in Others(N), pretty \in BOOLEAN }

\* rotation amounts, below and above the width
Rotations(N) == (0..MaxRot) \cup {N, N + 1, 2 * N + 1}

NoCall == [name |-> "none"]

(***************************************************************************)
(* The state machine: one Bits<SIZE> value is constructed (pc = "start"),  *)
(* then its methods are called one at a time (pc = "ready" -> "returned"). *)
(* ctor records the constructor call that made self, op the method call in *)
(* progress and ret the last value returned.                               *)
(***************************************************************************)
Init ==
  /\ SIZE \in Widths
  /\ self = <<>>
  /\ ctor = NoCall
  /\ op = NoCall
  /\ ret = None
  /\ pc = "start"

\* the caller receives the constructor's Result: the value of an Ok becomes
\* self, an error or a panic is kept in ret and ends the run
Constructed(call, r) ==
  /\ ctor' = call
  /\ ret' = IF r.tag = "Ok" THEN None ELSE r
  /\ self' = IF r.tag = "Ok" THEN r.bits ELSE self
  /\ pc' = IF r.tag = "Ok" THEN "ready" ELSE "failed"
  /\ UNCHANGED <<SIZE, op>>

New ==
  /\ pc = "start"
  /\ Constructed([name |-> "new"], OkBits(new(SIZE)))

FromSigned ==
  /\ pc = "start"
  /\ \E x \in Words32 :
       Constructed([name |-> "from_signed", x |-> x], OkBits(from_signed(x, SIZE)))

FromUnsigned ==
  /\ pc = "start"
  /\ \E x \in Words32 :
       Constructed([name |-> "from_unsigned", x |-> x], OkBits(from_unsigned(x, SIZE)))

FromSlice ==
  /\ pc = "start"
  /\ \E slice \in Slices \cup Vectors(SIZE, LowBits) :
       Constructed([name |-> "from_slice", slice |-> slice], from_slice(slice, SIZE))

FromReverseIndex ==
  /\ pc = "start"
  /\ \E slice \in Slices, hi \in 0..MaxIndex, lo \in 0..MaxIndex, build \in Builds :
       Constructed([name |-> "from_reverse_index", slice |-> slice, hi |-> hi, lo |-> lo],
                   from_reverse_index(slice, hi, lo, SIZE, build))

TryFrom ==
  /\ pc = "start"
  /\ \E input \in Inputs(SIZE) :
       Constructed([name |-> "try_from", input |-> input], try_from(input, SIZE))

\* a method of self is called and returns r
Called(call, r) ==
  /\ pc = "ready"
  /\ op' = call
  /\ ret' = r
  /\ pc' = "returned"
  /\ UNCHANGED <<SIZE, self, ctor>>

GetBit ==
  \E n \in {0, SIZE - 1, SIZE} : Called([name |-> "get_bit", n |-> n], get_bit(self, n))

UnsignedValue ==
  Called([name |-> "unsigned_value"], [tag |-> "u32", val |-> unsigned_value(self)])

SignedValue ==
  Called([name |-> "signed_value"], [tag |-> "i32", val |-> signed_value(self)])

UnsignedAdd ==
  \E other \in Others(SIZE), build \in Builds :
    Called([name |-> "unsigned_add", other |-> other], unsigned_add(self, other, build))

SignedAdd ==
  \E other \in Others(SIZE), build \in Builds :
    Called([name |-> "signed_add", other |-> other], signed_add(self, other, build))

RotateRight ==
  \E n \in Rotations(SIZE) :
    Called([name |-> "rotate_right", n |-> n], [tag |-> "bits", bits |-> rotate_right(self, n)])

RotateLeft ==
  \E n \in Rotations(SIZE) :
    Called([name |-> "rotate_left", n |-> n], [tag |-> "bits", bits |-> rotate_left(self, n)])

BitsString ==
  \E pretty \in BOOLEAN :
    Called([name |-> "bits_string", pretty |-> pretty],
           [tag |-> "string", str |-> bits_string(self, pretty)])

\* the caller is done with the returned value and may call again
Continue ==
  /\ pc = "returned"
  /\ pc' = "ready"
  /\ op' = NoCall
  /\ ret' = None
  /\ UNCHANGED <<SIZE, self, ctor>>

Next ==
  \/ New
  \/ FromSigned
  \/ FromUnsigned
  \/ FromSlice
  \/ FromReverseIndex
  \/ TryFrom
  \/ GetBit
  \/ UnsignedValue
  \/ SignedValue
  \/ UnsignedAdd
  \/ SignedAdd
  \/ RotateRight
  \/ RotateLeft
  \/ BitsString
  \/ Continue

Spec == Init /\ [][Next]_vars

(***************************************************************************)
(* Properties.                                                             *)
(***************************************************************************)
\* x is representable in N bits as an unsigned integer: 0 <= x < 2^N
FitsUnsigned(x, N) == \A k \in 0..31 : k >= N => ~Bit(x, k)

\* x is representable in N-bit two's complement: -2^(N-1) <= x <= 2^(N-1) - 1
FitsSigned(x, N) == \A k \in 0..31 : k >= N - 1 => Bit(x, k) = Bit(x, 31)

\* the method `name` has returned
Returned(name) == pc = "returned" /\ op.name = name

\* the constructor `name` has returned
ConstructedBy(name) == pc \in {"ready", "returned", "failed"} /\ ctor.name = name

\* C1: for every width N and every u32 x with x < 2^N,
\* Bits::<N>::from_unsigned(x).unsigned_value() == x.
UnsignedRoundTrip ==
  (Returned("unsigned_value") /\ ctor.name = "from_unsigned" /\ FitsUnsigned(ctor.x, SIZE))
    => ret = [tag |-> "u32", val |-> ctor.x]

\* a width above 32 and a value that needs all 32 bits went round
UnsignedRoundTripWitness ==
  /\ Returned("unsigned_value") /\ ctor.name = "from_unsigned"
  /\ FitsUnsigned(ctor.x, SIZE) /\ SIZE > 32 /\ Bit(ctor.x, 31) /\ Bit(ctor.x, 0)
  /\ ret.val = ctor.x

\* C2: for every width N >= 1 and every i32 x representable in N-bit two's
\* complement, Bits::<N>::from_signed(x).signed_value() == x, widths above 32
\* included.
SignedRoundTrip ==
  (Returned("signed_value") /\ ctor.name = "from_signed" /\ FitsSigned(ctor.x, SIZE))
    => ret = [tag |-> "i32", val |-> ctor.x]

\* a negative value went round through a width below 32
SignedRoundTripWitness ==
  /\ Returned("signed_value") /\ ctor.name = "from_signed"
  /\ FitsSigned(ctor.x, SIZE) /\ SIZE > 1 /\ SIZE < 32 /\ Bit(ctor.x, 31) /\ ~Bit(ctor.x, 0)
  /\ ret.val = ctor.x

\* the sum of two u32 values, exact in 64 bits
UnsignedSum(a, b) == WrappingAdd(ZeroExtend(a, 32, 64), ZeroExtend(b, 32, 64), 64)

\* the sum of two i32 values, exact in 64 bits
SignedSum(a, b) == WrappingAdd(SignExtend(a, 32, 64), SignExtend(b, 32, 64), 64)

\* the N-bit vector of the low N bits of the 64-bit word s, most significant first
LowBitsOf(s, N) == Bits([i \in 1..N |-> Bit(s, N - i)], N)

\* C3: for 1 <= N <= 64 and N-bit vectors a, b, with s = a.unsigned_value() +
\* b.unsigned_value() exact, a.unsigned_add(b) returns (r, ov) where r holds the
\* low N bits of s and ov is true iff s >= 2^N.
UnsignedAddLowBitsAndCarry ==
  Returned("unsigned_add") =>
    LET s == UnsignedSum(unsigned_value(self), unsigned_value(op.other))
    IN  ret = [tag |-> "pair", bits |-> LowBitsOf(s, SIZE),
               overflow |-> \E k \in SIZE..63 : Bit(s, k)]

\* C4: for 1 <= N <= 64 and N-bit vectors a, b, with s = a.signed_value() +
\* b.signed_value() exact, a.signed_add(b) returns (r, ov) where r holds the low
\* N bits of the two's-complement pattern of s and ov is true iff
\* s < -2^(N-1) or s > 2^(N-1) - 1.
SignedAddLowBitsAndOverflow ==
  Returned("signed_add") =>
    LET s == SignedSum(signed_value(self), signed_value(op.other))
    IN  ret = [tag |-> "pair", bits |-> LowBitsOf(s, SIZE),
               overflow |-> ~(\A k \in (SIZE-1)..63 : Bit(s, k) = Bit(s, 63))]

\* C5: for every N >= 1, widths above 32 included, unsigned_add of the all-true
\* vector with the vector whose only true bit is the least significant one
\* returns the all-false vector and overflow = true, without failing.
UnsignedOverflowBoundary ==
  (/\ Returned("unsigned_add")
   /\ self = [i \in 1..SIZE |-> TRUE]
   /\ op.other = [i \in 1..SIZE |-> i = SIZE])
    => ret = [tag |-> "pair", bits |-> [i \in 1..SIZE |-> FALSE], overflow |-> TRUE]

\* C6: for every N >= 1, every N-bit v and every k >= 0 (k >= N included),
\* v.rotate_right(k).rotate_left(k) == v; rotate_right(k) moves the bit at index
\* i to index (i + k mod N) mod N, rotate_left(k) moves it to index
\* (i + N - (k mod N)) mod N, neither fails and v is left unchanged.
RotationInverse ==
  [][ /\ (pc' = "returned" /\ op'.name = "rotate_right") =>
           /\ self' = self
           /\ ret'.tag = "bits"
           /\ \A i \in 0..(SIZE-1) :
                ret'.bits[((i + (op'.n % SIZE)) % SIZE) + 1] = self[i+1]
           /\ rotate_left(ret'.bits, op'.n) = self
      /\ (pc' = "returned" /\ op'.name = "rotate_left") =>
           /\ self' = self
           /\ ret'.tag = "bits"
           /\ \A i \in 0..(SIZE-1) :
                ret'.bits[((i + SIZE - (op'.n % SIZE)) % SIZE) + 1] = self[i+1]
    ]_vars

\* a vector that is not all equal was rotated right by more than its width,
\* to a different vector, and rotating that left gives it back
RotationInverseWitness ==
  /\ Returned("rotate_right") /\ op.n > SIZE /\ op.n % SIZE # 0
  /\ ret.bits # self
  /\ rotate_left(ret.bits, op.n) = self

\* C7: try_from(text), for a text that after removing whitespace is L < N
\* characters '0'/'1', succeeds with the L characters at indices 0..L-1 and the
\* remaining N - L bits false.
ShortLiteralZeroPads ==
  (/\ ConstructedBy("try_from")
   /\ Len(StripSpaces(ctor.input)) < SIZE
   /\ \A k \in 1..Len(StripSpaces(ctor.input)) : StripSpaces(ctor.input)[k] \in {"0", "1"})
    => /\ pc # "failed"
       /\ self = [i \in 1..SIZE |-> i <= Len(StripSpaces(ctor.input))
                                       /\ StripSpaces(ctor.input)[i] = "1"]

\* C8: from_reverse_index(slice, hi, lo) over a slice of length L returns
\* Err(BitIndexOutOfRange), never a panic and never a vector, whenever
\* max(hi, lo) > L - 1; when max <= L - 1 and max - min + 1 == N it returns the
\* N bits slice[L-1-max ..= L-1-min].
ReverseIndexOutOfRange ==
  ConstructedBy("from_reverse_index") =>
    LET L   == Len(ctor.slice)
        max == IF ctor.hi > ctor.lo THEN ctor.hi ELSE ctor.lo
        min == IF ctor.hi > ctor.lo THEN ctor.lo ELSE ctor.hi
    IN  /\ max > L - 1 => (pc = "failed" /\ ret = BitIndexOutOfRange)
        /\ (max <= L - 1 /\ max - min + 1 = SIZE) =>
             (pc # "failed" /\ self = [i \in 1..SIZE |-> ctor.slice[L - 1 - max + i]])

\* the rendering the claim describes: the bits most significant first, a space
\* before the bit at index j whenever 0 < j < N and (N - j) mod 4 = 0
GroupedFromLeastSignificant(v) ==
  LET N == Len(v)
      build[j \in 0..N, str \in Seq({"0", "1", " "})] ==
        IF j >= N THEN str
        ELSE build[j + 1, str \o (IF j > 0 /\ (N - j) % 4 = 0 THEN <<" ">> ELSE <<>>)
                              \o <<IF v[j+1] THEN "1" ELSE "0">>]
  IN  build[0, <<>>]

\* C9: bits_string(true) is the N characters of v, most significant first, with
\* one space before each bit whose distance from the least-significant end is
\* a positive multiple of 4; bits_string(false) is the characters alone.
PrettyGroupsFromLeastSignificant ==
  Returned("bits_string") =>
    ret.str = IF op.pretty THEN GroupedFromLeastSignificant(self)
              ELSE [i \in 1..SIZE |-> IF self[i] THEN "1" ELSE "0"]

\* C10 as claimed: for every N >= 1, widths above 32 included,
\* v.signed_value() < 0 iff v[0]; for N < 32 the 32 - N high-order bits of the
\* result equal v[0].
SignBitIsBitZero ==
  Returned("signed_value") =>
    /\ Bit(ret.val, 31) = self[1]
    /\ SIZE < 32 => \A k \in SIZE..31 : Bit(ret.val, k) = self[1]

\* C10 as amended: v.signed_value() < 0 iff the bit at index max(N - 32, 0) is
\* true, which is v[0] exactly when N <= 32; for N < 32 the 32 - N high-order
\* bits of the result equal v[0].
SignBitIsTopOfLow32 ==
  Returned("signed_value") =>
    /\ Bit(ret.val, 31) = self[(IF SIZE > 32 THEN SIZE - 32 ELSE 0) + 1]
    /\ SIZE < 32 => \A k \in SIZE..31 : Bit(ret.val, k) = self[1]

\* a vector wider than 32 bits with v[0] set and bit N-32 clear reads as >= 0
SignBitWitness ==
  /\ Returned("signed_value") /\ SIZE > 32
  /\ self[1] /\ ~self[SIZE - 32 + 1] /\ ~Bit(ret.val, 31)

====
